---- MODULE Spec2Model ----
(***************************************************************************)
(* Wear-levelled EEPROM ring of WL_AT24CX<data_t> (src/WL_AT24CX.h).       *)
(*                                                                         *)
(* The device is a flat byte array.  Three regions are constructed on it,  *)
(* wear-levelled "A" at address 0, wear-levelled "B" chained at            *)
(* A.get_end_addr() and the plain array "P" (wl_en = false) chained at     *)
(* B.get_end_addr().  data_t is uint16_t, stored little-endian; a uint32_t *)
(* is kept as its four little-endian bytes so that the 32-bit arithmetic   *)
(* is exact.                                                               *)
(***************************************************************************)
EXTENDS Integers, Sequences, FiniteSets, TLC

\* ------------------------------------------------------------------ bounds
NumOfData == 3      \* num_of_data given to the constructors
EepromSize == 64    \* eeprom_size given to the constructors (bytes)
MaxPush == 5        \* record writes to region A between two wipes
MaxPushB == 4       \* record writes to region B between two wipes

Regions == {"A", "B", "P"}
Payloads == {4660, 22136}     \* 0x1234, 0x5678 : values pushed to A
PayloadsB == {43981}          \* 0xABCD : value pushed to B
CrcNoise == {0, 255}          \* values a damaged crc byte may take
NoVal == 256 * 256            \* ghost: "no value" (outside uint16_t)

\* ------------------------------------------------------- bytes and uint32
Byte == 0..255

RECURSIVE BitXor(_, _)
BitXor(a, b) ==
    IF a = 0 /\ b = 0 THEN 0
    ELSE (((a % 2) + (b % 2)) % 2) + 2 * BitXor(a \div 2, b \div 2)

RECURSIVE Pow256(_)
Pow256(i) == IF i = 0 THEN 1 ELSE 256 * Pow256(i - 1)

\* a uint32_t as laid out in memory: <<b0, b1, b2, b3>>, b0 least significant
U32 == [1..4 -> Byte]

\* the uint32_t holding a small natural n
U32Of(n) == [i \in 1..4 |-> (n \div Pow256(i - 1)) % 256]

RECURSIVE U32IncFrom(_, _)
U32IncFrom(p, i) ==
    IF i > 4 THEN p
    ELSE IF p[i] = 255 THEN U32IncFrom([p EXCEPT ![i] = 0], i + 1)
    ELSE [p EXCEPT ![i] = p[i] + 1]

\* p + 1 in uint32_t arithmetic
U32Inc(p) == U32IncFrom(p, 1)

RECURSIVE U32SubFrom(_, _, _, _)
U32SubFrom(a, b, i, borrow) ==
    IF i > 4 THEN <<>>
    ELSE LET d == a[i] - b[i] - borrow
         IN  <<(d + 256) % 256>> \o U32SubFrom(a, b, i + 1, IF d < 0 THEN 1 ELSE 0)

\* a - b in uint32_t arithmetic
U32Sub(a, b) == U32SubFrom(a, b, 1, 0)

RECURSIVE U32LessFrom(_, _, _)
U32LessFrom(a, b, i) ==
    IF i < 1 THEN FALSE
    ELSE IF a[i] /= b[i] THEN a[i] < b[i]
    ELSE U32LessFrom(a, b, i - 1)

\* a < b as uint32_t
U32Less(a, b) == U32LessFrom(a, b, 4)

RECURSIVE U32ModFrom(_, _, _, _)
U32ModFrom(p, n, i, acc) ==
    IF i < 1 THEN acc ELSE U32ModFrom(p, n, i - 1, ((acc * 256) + p[i]) % n)

\* p % n for a small n
U32Mod(p, n) == U32ModFrom(p, n, 4, 0)

\* -------------------------------------------------------- the class fields
data_size == 2                       \* sizeof(data_t), data_t = uint16_t
wl_data_size == data_size + 4 + 1    \* sizeof(wl_data_t<data_t>), packed
pointer_max == [i \in 1..4 |-> 255]  \* numeric_limits<uint32_t>::max()
num_of_data == NumOfData
eeprom_size == EepromSize
end_taddr == num_of_data - 1

\* the constructor: the fields it sets.  It checks no argument and does no
\* I/O; end_taddr is n - 1 in uint32_t arithmetic.
WL_AT24CX(base, n, wl_en, size) ==
    [base_addr |-> base, num_of_data |-> n, wl_enable |-> wl_en,
     eeprom_size |-> size,
     end_addr |-> IF wl_en THEN base + wl_data_size * n ELSE base + data_size * n,
     end_taddr |-> U32Sub(U32Of(n), U32Of(1)),
     fatal |-> FALSE]

\* the three objects, each chained at the end address of the one before
objA == WL_AT24CX(0, num_of_data, TRUE, eeprom_size)
objB == WL_AT24CX(objA.end_addr, num_of_data, TRUE, eeprom_size)
objP == WL_AT24CX(objB.end_addr, num_of_data, FALSE, eeprom_size)
obj == [r \in Regions |-> IF r = "A" THEN objA ELSE IF r = "B" THEN objB ELSE objP]

wl_enable == [r \in Regions |-> obj[r].wl_enable]
base_addr == [r \in Regions |-> obj[r].base_addr]
WlRegions == {r \in Regions : wl_enable[r]}

addr_to_taddr(r, addr) ==
    IF wl_enable[r] THEN (addr - base_addr[r]) \div wl_data_size
    ELSE (addr - base_addr[r]) \div data_size

base_taddr(r) == addr_to_taddr(r, base_addr[r])

get_end_addr(r) == obj[r].end_addr

\* taddr_to_addr without the offset of the object
taddr_to_addr_nobase(r, taddr) ==
    IF wl_enable[r] THEN taddr * wl_data_size ELSE taddr * data_size

taddr_to_addr(r, taddr) ==
    (IF wl_enable[r] THEN taddr * wl_data_size ELSE taddr * data_size) + base_addr[r]

\* ------------------------------------------------------ the device (AT24CX)
\* read(address, buffer, n): n bytes from address on; cells past the device
\* read as erased
read(m, addr, n) ==
    [i \in 1..n |-> IF addr + i - 1 \in DOMAIN m THEN m[addr + i - 1] ELSE 255]

\* write(address, buffer, n): the bytes of buf, in increasing address order
write(m, addr, buf) ==
    [a \in DOMAIN m |->
        IF a >= addr /\ a < addr + Len(buf) THEN buf[a - addr + 1] ELSE m[a]]

\* the object representation of a data_t value (little-endian)
BytesOf(data) == [i \in 1..data_size |-> (data \div Pow256(i - 1)) % 256]

RECURSIVE DataOfFrom(_, _)
DataOfFrom(bs, i) ==
    IF i > data_size THEN 0 ELSE bs[i] + 256 * DataOfFrom(bs, i + 1)

\* the data_t value of an object representation
DataOf(bs) == DataOfFrom(bs, 1)

RECURSIVE XorBytes(_, _)
XorBytes(bs, i) == IF i > Len(bs) THEN 0 ELSE BitXor(bs[i], XorBytes(bs, i + 1))

calc_crc(data) == XorBytes(BytesOf(data), 1)

isdatavalid(input) == input.crc = calc_crc(input.data)

\* the bytes of a wl_data_t<data_t>: data, ptr, crc, no padding
RecordBytes(rec) == BytesOf(rec.data) \o rec.ptr \o <<rec.crc>>

wl_peek(r, m, taddr) ==
    LET out == read(m, taddr_to_addr(r, taddr), wl_data_size)
    IN  [data |-> DataOf(SubSeq(out, 1, data_size)),
         ptr  |-> SubSeq(out, data_size + 1, data_size + 4),
         crc  |-> out[data_size + 5]]

taddr_step(taddr, forward) ==
    IF forward THEN (taddr + 1) % num_of_data
    ELSE IF taddr = 0 THEN end_taddr ELSE taddr - 1

\* --------------------------------------------------------------- the state
VARIABLES
    mem,             \* the EEPROM cells, one byte each
    pc,              \* per region: "constructed" (fields not set), "ready", "fatal"
    taddr_current,   \* per region: HEAD slot
    taddr_last,      \* per region: slot before HEAD
    wl_ptr_current,  \* per region: ptr to be written next
    memisWiped,      \* per region: the field of that name
    k,               \* ghost, per region: records completely written since the
                     \*   last wipe (since the initial state when aged)
    lastv,           \* ghost: payload of A's last completely written record
    newest,          \* ghost: slot of A's last completely written record, -1 if none
    tornv,           \* ghost: payload of A's interrupted push, when that push is
                     \*   the latest write to A; NoVal otherwise
    torn,            \* ghost: a record write to A was interrupted since the last wipe
    bad,             \* ghost: A's slot whose crc byte was damaged, -1 if none
    via,             \* ghost: 1 / 2 when A's session came from wl_init / wl_init2
    sess0,           \* ghost: A's session was opened on the wiped region
    op,              \* ghost: the latest operation on A
    aged,            \* ghost: the run started from the aged region
    probe,           \* the object made by the latest constructor call on its own
    pcall,           \* ghost: the latest call on the plain array P
    raw              \* ghost: write_mem and wipe(size) calls made so far

vars == <<mem, pc, taddr_current, taddr_last, wl_ptr_current, memisWiped,
          k, lastv, newest, tornv, torn, bad, via, sess0, op, aged,
          probe, pcall, raw>>

\* --------------------------------------------------------------- wl_init
\* outcome of an open: the three fields, or the assertion failure
Opened(cur, last, ptr) ==
    [ok |-> TRUE, taddr_current |-> cur, taddr_last |-> last, wl_ptr_current |-> ptr]
Aborted ==
    [ok |-> FALSE, taddr_current |-> 0, taddr_last |-> 0, wl_ptr_current |-> U32Of(0)]

\* wl_init's CRC loop without the wiped-memory case at its head
RECURSIVE wl_init_crc_noshortcut(_, _, _, _, _)
wl_init_crc_noshortcut(r, m, taddr, next, check_attempt) ==
    LET current == wl_peek(r, m, taddr)
    IN  IF ~isdatavalid(current)
        THEN IF check_attempt + 1 < num_of_data
             THEN wl_init_crc_noshortcut(r, m, IF taddr = 0 THEN end_taddr ELSE taddr - 1,
                                         next, check_attempt + 1)
             ELSE Aborted
        ELSE Opened((taddr + 1) % num_of_data, taddr, U32Inc(current.ptr))

\* the "CRC validity check" for(;;) of wl_init; next is the record read when
\* the break was found and is not read again
RECURSIVE wl_init_crc(_, _, _, _, _)
wl_init_crc(r, m, taddr, next, check_attempt) ==
    IF taddr = 0 /\ next.ptr = pointer_max
    THEN Opened(0, 0, U32Of(0))
    ELSE LET current == wl_peek(r, m, taddr)
         IN  IF ~isdatavalid(current)
             THEN IF check_attempt + 1 < num_of_data
                  THEN wl_init_crc(r, m, IF taddr = 0 THEN end_taddr ELSE taddr - 1,
                                   next, check_attempt + 1)
                  ELSE Aborted
             ELSE Opened((taddr + 1) % num_of_data, taddr, U32Inc(current.ptr))

\* the scan loop of wl_init from taddr on
RECURSIVE wl_init_scan(_, _, _)
wl_init_scan(r, m, taddr) ==
    IF taddr > end_taddr
    THEN Aborted
    ELSE LET current == wl_peek(r, m, taddr)
             next    == wl_peek(r, m, taddr + 1)
         IN  IF U32Sub(next.ptr, current.ptr) /= U32Of(1) \/ next.ptr = pointer_max
             THEN wl_init_crc(r, m, taddr, next, 0)
             ELSE wl_init_scan(r, m, taddr + 1)

wl_init(r, m) == IF wl_enable[r] THEN wl_init_scan(r, m, base_taddr(r)) ELSE Aborted

\* --------------------------------------------------------------- wl_init2
\* the "find pointer break" loop of wl_init2 from taddr on: whether it returned
\* on the wiped memory, and the taddr it stopped at (num_of_data: ran to the end)
RECURSIVE wl_init2_scan(_, _, _)
wl_init2_scan(r, m, taddr) ==
    IF taddr > end_taddr
    THEN [wiped |-> FALSE, taddr |-> taddr]
    ELSE LET current       == wl_peek(r, m, taddr)
             next          == wl_peek(r, m, taddr + 1)
             ptrBreakFound == U32Sub(next.ptr, current.ptr) /= U32Of(1)
             maxIntFound   == next.ptr = pointer_max
         IN  IF maxIntFound
             THEN [wiped |-> current.ptr = pointer_max, taddr |-> taddr]
             ELSE IF ptrBreakFound
                  THEN [wiped |-> FALSE, taddr |-> taddr]
                  ELSE wl_init2_scan(r, m, taddr + 1)

\* the "find data with correct crc" do-while of wl_init2
RECURSIVE wl_init2_crc(_, _, _, _, _)
wl_init2_crc(r, m, taddr, check_attempt, dataChecked) ==
    LET current == wl_peek(r, m, taddr)
    IN  IF ~isdatavalid(current)
        THEN IF check_attempt + 1 > dataChecked
             THEN Aborted
             ELSE wl_init2_crc(r, m, taddr_step(taddr, FALSE), check_attempt + 1,
                               dataChecked)
        ELSE Opened(taddr_step(taddr, TRUE), taddr, U32Inc(current.ptr))

wl_init2(r, m) ==
    IF ~wl_enable[r] THEN Aborted
    ELSE LET found == wl_init2_scan(r, m, base_taddr(r))
         IN  IF found.wiped
             THEN Opened(0, 0, U32Of(0))
             ELSE wl_init2_crc(r, m, found.taddr, 0, found.taddr)

\* ------------------------------------------------------- wl_get_last_data
\* wl_get_last_data reading the HEAD slot instead of the one before it
wl_get_last_data_head(r) ==
    IF ~memisWiped[r] THEN wl_peek(r, mem, taddr_current[r]).data ELSE 0

wl_get_last_data(r) ==
    IF ~memisWiped[r] THEN wl_peek(r, mem, taddr_last[r]).data ELSE 0

\* ------------------------------------------------------------------- wipe
RECURSIVE wipe_from(_, _, _)
wipe_from(m, i, size) ==
    IF i < size
    THEN wipe_from(write(m, i, [j \in 1..8 |-> 255]), i + 8, size)
    ELSE m

wipe(m, size) == wipe_from(m, 0, size)

\* ---------------------------------------------------------------- wl_push
\* the buffer stamped with the incremented ptr
wl_buffer_preinc(r, data) ==
    [data |-> data, ptr |-> U32Inc(wl_ptr_current[r]), crc |-> calc_crc(data)]

\* the wl_data_t buffer wl_push builds
wl_buffer(r, data) ==
    [data |-> data, ptr |-> wl_ptr_current[r], crc |-> calc_crc(data)]

\* wl_push advancing HEAD without the modulo
wl_push_nowrap(r, data) ==
    IF ~wl_enable[r]
    THEN /\ pc' = [pc EXCEPT ![r] = "fatal"]
         /\ UNCHANGED <<mem, taddr_current, taddr_last, wl_ptr_current>>
    ELSE /\ mem' = write(mem, taddr_to_addr(r, taddr_current[r]),
                         RecordBytes(wl_buffer(r, data)))
         /\ wl_ptr_current' = [wl_ptr_current EXCEPT ![r] = U32Inc(@)]
         /\ taddr_last' = [taddr_last EXCEPT ![r] = taddr_current[r]]
         /\ taddr_current' = [taddr_current EXCEPT ![r] = taddr_current[r] + 1]
         /\ UNCHANGED pc

\* wl_push leaving wl_ptr_current as it was
wl_push_noinc(r, data) ==
    IF ~wl_enable[r]
    THEN /\ pc' = [pc EXCEPT ![r] = "fatal"]
         /\ UNCHANGED <<mem, taddr_current, taddr_last, wl_ptr_current>>
    ELSE /\ mem' = write(mem, taddr_to_addr(r, taddr_current[r]),
                         RecordBytes(wl_buffer(r, data)))
         /\ taddr_last' = [taddr_last EXCEPT ![r] = taddr_current[r]]
         /\ taddr_current' =
                [taddr_current EXCEPT ![r] = (taddr_current[r] + 1) % num_of_data]
         /\ UNCHANGED <<pc, wl_ptr_current>>

\* wl_push writing the record at taddr_last
wl_push_last(r, data) ==
    IF ~wl_enable[r]
    THEN /\ pc' = [pc EXCEPT ![r] = "fatal"]
         /\ UNCHANGED <<mem, taddr_current, taddr_last, wl_ptr_current>>
    ELSE /\ mem' = write(mem, taddr_to_addr(r, taddr_last[r]),
                         RecordBytes(wl_buffer(r, data)))
         /\ wl_ptr_current' = [wl_ptr_current EXCEPT ![r] = U32Inc(@)]
         /\ taddr_last' = [taddr_last EXCEPT ![r] = taddr_current[r]]
         /\ taddr_current' =
                [taddr_current EXCEPT ![r] = (taddr_current[r] + 1) % num_of_data]
         /\ UNCHANGED pc

\* wl_push without its assert(wl_enable)
wl_push_unchecked(r, data) ==
    /\ mem' = write(mem, taddr_to_addr(r, taddr_current[r]),
                    RecordBytes(wl_buffer(r, data)))
    /\ wl_ptr_current' = [wl_ptr_current EXCEPT ![r] = U32Inc(@)]
    /\ taddr_last' = [taddr_last EXCEPT ![r] = taddr_current[r]]
    /\ taddr_current' =
           [taddr_current EXCEPT ![r] = (taddr_current[r] + 1) % num_of_data]
    /\ UNCHANGED pc

wl_push(r, data) ==
    IF ~wl_enable[r]
    THEN /\ pc' = [pc EXCEPT ![r] = "fatal"]
         /\ UNCHANGED <<mem, taddr_current, taddr_last, wl_ptr_current>>
    ELSE /\ mem' = write(mem, taddr_to_addr(r, taddr_current[r]),
                         RecordBytes(wl_buffer(r, data)))
         /\ wl_ptr_current' = [wl_ptr_current EXCEPT ![r] = U32Inc(@)]
         /\ taddr_last' = [taddr_last EXCEPT ![r] = taddr_current[r]]
         /\ taddr_current' =
                [taddr_current EXCEPT ![r] = (taddr_current[r] + 1) % num_of_data]
         /\ UNCHANGED pc

\* ------------------------------------------------- write_mem and read_mem
\* write_mem addressing the slot taddr itself
write_mem_nomod(r, m, taddr, data) ==
    write(m, taddr_to_addr(r, taddr), BytesOf(data))

write_mem(r, m, taddr, data) ==
    write(m, taddr_to_addr(r, taddr % num_of_data), BytesOf(data))

read_mem(r, m, taddr) ==
    DataOf(read(m, taddr_to_addr(r, taddr % num_of_data), data_size))

\* ------------------------------------------------------------ the actions
\* A holds nothing but completely written records, all written since a wipe
Clean == ~torn /\ bad = -1 /\ ~aged

\* state after the two constructors on an erased device: no I/O was done and
\* taddr_current, taddr_last, wl_ptr_current hold nothing yet
Fresh ==
    /\ pc = [r \in Regions |-> "constructed"]
    /\ taddr_current = [r \in Regions |-> 0]
    /\ taddr_last = [r \in Regions |-> 0]
    /\ wl_ptr_current = [r \in Regions |-> U32Of(0)]
    /\ memisWiped = [r \in Regions |-> FALSE]
    /\ k = [r \in Regions |-> 0]
    /\ lastv = NoVal /\ newest = -1 /\ tornv = NoVal /\ torn = FALSE /\ bad = -1
    /\ via = 0 /\ sess0 = FALSE
    /\ probe = objA /\ pcall = "none" /\ raw = 0

Init ==
    /\ mem = [a \in 0..(eeprom_size - 1) |-> 255]
    /\ Fresh
    /\ op = "new"
    /\ aged = FALSE

\* wipe(): the whole device; every region is opened again before further use
Wipe ==
    /\ mem' = wipe(mem, eeprom_size)
    /\ pc' = [r \in Regions |-> "constructed"]
    /\ taddr_current' = [r \in Regions |-> 0]
    /\ taddr_last' = [r \in Regions |-> 0]
    /\ wl_ptr_current' = [r \in Regions |-> U32Of(0)]
    /\ k' = [r \in Regions |-> 0]
    /\ lastv' = NoVal /\ newest' = -1 /\ tornv' = NoVal /\ torn' = FALSE /\ bad' = -1
    /\ via' = 0 /\ sess0' = FALSE
    /\ op' = "wipe"
    /\ aged' = FALSE
    /\ UNCHANGED <<memisWiped, probe, pcall, raw>>

\* wl_init() (w = 1) or wl_init2() (w = 2) on a region whose fields are not set
Open(r, w) ==
    /\ pc[r] = "constructed"
    /\ LET res == IF w = 1 THEN wl_init(r, mem) ELSE wl_init2(r, mem)
       IN  /\ pc' = [pc EXCEPT ![r] = IF res.ok THEN "ready" ELSE "fatal"]
           /\ taddr_current' = [taddr_current EXCEPT ![r] = res.taddr_current]
           /\ taddr_last' = [taddr_last EXCEPT ![r] = res.taddr_last]
           /\ wl_ptr_current' = [wl_ptr_current EXCEPT ![r] = res.wl_ptr_current]
           /\ IF r = "A"
              THEN /\ via' = (IF res.ok THEN w ELSE 0)
                   /\ sess0' = (res.ok /\ Clean /\ k["A"] = 0)
                   /\ op' = "open"
              ELSE UNCHANGED <<via, sess0, op>>
    /\ pcall' = (IF r = "P" THEN "open" ELSE pcall)
    /\ UNCHANGED <<mem, memisWiped, k, lastv, newest, tornv, torn, bad, aged,
                   probe, raw>>

\* wl_push(data) on an opened region
Push(r, data) ==
    /\ pc[r] = "ready"
    /\ k[r] < (IF r = "A" THEN MaxPush ELSE MaxPushB)
    /\ wl_push(r, data)
    /\ k' = [k EXCEPT ![r] = @ + 1]
    /\ IF r = "A"
       THEN /\ lastv' = data
            /\ newest' = taddr_current[r]
            /\ tornv' = NoVal
            /\ op' = "push"
       ELSE UNCHANGED <<lastv, newest, tornv, op>>
    /\ UNCHANGED <<memisWiped, torn, bad, via, sess0, aged, probe, pcall, raw>>

\* the engine of region A is dropped (or the processor restarts after an abort):
\* the fields are lost
LoseFields ==
    /\ pc' = [pc EXCEPT !["A"] = "constructed"]
    /\ taddr_current' = [taddr_current EXCEPT !["A"] = 0]
    /\ taddr_last' = [taddr_last EXCEPT !["A"] = 0]
    /\ wl_ptr_current' = [wl_ptr_current EXCEPT !["A"] = U32Of(0)]
    /\ via' = 0
    /\ sess0' = FALSE

Drop ==
    /\ pc["A"] \in {"ready", "fatal"}
    /\ LoseFields
    /\ op' = "drop"
    /\ UNCHANGED <<mem, memisWiped, k, lastv, newest, tornv, torn, bad, aged,
                   probe, pcall, raw>>

\* power is lost inside wl_push(data) of region A when the first n bytes of the
\* record have reached the device; n = wl_data_size: the write is complete and
\* only the update of the fields is lost.  At most one write is interrupted
\* between two wipes.
PushCrash(data, n) ==
    /\ pc["A"] = "ready"
    /\ k["A"] < MaxPush
    /\ wl_enable["A"]
    /\ n < wl_data_size => Clean
    /\ mem' = write(mem, taddr_to_addr("A", taddr_current["A"]),
                    SubSeq(RecordBytes(wl_buffer("A", data)), 1, n))
    /\ LoseFields
    /\ IF n = wl_data_size
       THEN /\ k' = [k EXCEPT !["A"] = @ + 1]
            /\ lastv' = data
            /\ newest' = taddr_current["A"]
            /\ tornv' = NoVal
            /\ UNCHANGED torn
       ELSE /\ torn' = TRUE
            /\ tornv' = data
            /\ UNCHANGED <<k, lastv, newest>>
    /\ op' = "crash"
    /\ UNCHANGED <<memisWiped, bad, aged, probe, pcall, raw>>

\* the crc byte of A's newest record is damaged while no engine is running
CorruptCrc(c) ==
    /\ pc["A"] = "constructed"
    /\ Clean
    /\ newest >= 0
    /\ c /= wl_peek("A", mem, newest).crc
    /\ mem' = [mem EXCEPT ![taddr_to_addr("A", newest) + data_size + 4] = c]
    /\ bad' = newest
    /\ op' = "corrupt"
    /\ UNCHANGED <<pc, taddr_current, taddr_last, wl_ptr_current, memisWiped,
                   k, lastv, newest, tornv, torn, via, sess0, aged,
                   probe, pcall, raw>>

Next ==
    \/ Wipe
    \/ \E r \in WlRegions, w \in {1, 2} : Open(r, w)
    \/ \E data \in Payloads : Push("A", data)
    \/ \E data \in PayloadsB : Push("B", data)
    \/ Drop
    \/ \E data \in Payloads, n \in 1..wl_data_size : PushCrash(data, n)
    \/ \E c \in CrcNoise : CorruptCrc(c)

Spec == Init /\ [][Next]_vars

\* ------------------------------------------- a region near the end of uint32
\* wl_ptr_current of a session that has pushed 2^32 - 4 records since the wipe
AgedPtr == <<252, 255, 255, 255>>

\* the slot that session writes next, and the slot it wrote i pushes ago
AgedHead == U32Mod(AgedPtr, num_of_data)
AgedBack(taddr) == (AgedHead + num_of_data - 1 - taddr) % num_of_data

AgedRecord(taddr) ==
    [data |-> 4660, ptr |-> U32Sub(AgedPtr, U32Of(1 + AgedBack(taddr))),
     crc |-> calc_crc(4660)]

RECURSIVE AgedMem(_, _)
AgedMem(m, taddr) ==
    IF taddr > end_taddr THEN m
    ELSE AgedMem(write(m, taddr_to_addr("A", taddr), RecordBytes(AgedRecord(taddr))),
                 taddr + 1)

\* that session, still running; region B has never been used
InitAged ==
    /\ mem = AgedMem([a \in 0..(eeprom_size - 1) |-> 255], 0)
    /\ pc = [r \in Regions |-> IF r = "A" THEN "ready" ELSE "constructed"]
    /\ taddr_current = [r \in Regions |-> IF r = "A" THEN AgedHead ELSE 0]
    /\ taddr_last = [r \in Regions |-> IF r = "A" THEN taddr_step(AgedHead, FALSE) ELSE 0]
    /\ wl_ptr_current = [r \in Regions |-> IF r = "A" THEN AgedPtr ELSE U32Of(0)]
    /\ memisWiped = [r \in Regions |-> FALSE]
    /\ k = [r \in Regions |-> 0]
    /\ lastv = 4660 /\ newest = taddr_step(AgedHead, FALSE)
    /\ tornv = NoVal /\ torn = FALSE /\ bad = -1
    /\ via = 1 /\ sess0 = FALSE
    /\ op = "new"
    /\ aged = TRUE
    /\ probe = objA /\ pcall = "none" /\ raw = 0

NextAged ==
    \/ \E data \in Payloads : Push("A", data)
    \/ Drop
    \/ \E w \in {1, 2} : Open("A", w)

SpecAged == InitAged /\ [][NextAged]_vars

\* ------------------------------------------------ the constructor on its own
MaxCtorSlot == 10   \* base_addr arguments tried: 0 .. MaxCtorSlot records in
MaxCtorN == 4       \* num_of_data arguments tried: 0 .. MaxCtorN

\* new WL_AT24CX(index, pageSize, base, n, wl_en, eeprom_size)
Construct(base, n, wl_en) ==
    /\ probe' = WL_AT24CX(base, n, wl_en, eeprom_size)
    /\ UNCHANGED <<mem, pc, taddr_current, taddr_last, wl_ptr_current, memisWiped,
                   k, lastv, newest, tornv, torn, bad, via, sess0, op, aged,
                   pcall, raw>>

NextCtor ==
    \E slot \in 0..MaxCtorSlot, n \in 0..MaxCtorN, wl_en \in BOOLEAN :
        Construct(slot * wl_data_size, n, wl_en)

SpecCtor == Init /\ [][NextCtor]_vars

\* ------------------------------------ the three objects used side by side
MaxCalls == 3       \* wl_push, write_mem and wipe(size) calls in one run

MemIdx == {1, NumOfData + 1, NumOfData + 2}   \* taddr arguments of write_mem
MemVals == {22136, 43981}                     \* data arguments of write_mem
WipeSizes == {3, 8, get_end_addr("A")}        \* size arguments of wipe

Calls == k["A"] + k["B"] + raw

\* wl_push(data) on an opened wear-levelled region, within the call budget
ApiPush(r, data) ==
    /\ Calls < MaxCalls
    /\ Push(r, data)

\* wl_push(data) on the plain array
PlainPush(data) ==
    /\ pc["P"] = "constructed"
    /\ wl_push("P", data)
    /\ pcall' = "wl_push"
    /\ UNCHANGED <<memisWiped, k, lastv, newest, tornv, torn, bad, via, sess0, op,
                   aged, probe, raw>>

\* the processor restarts after the abort of a call on the plain array
PlainRestart ==
    /\ pc["P"] = "fatal"
    /\ pc' = [pc EXCEPT !["P"] = "constructed"]
    /\ pcall' = "restart"
    /\ UNCHANGED <<mem, taddr_current, taddr_last, wl_ptr_current, memisWiped,
                   k, lastv, newest, tornv, torn, bad, via, sess0, op, aged,
                   probe, raw>>

\* write_mem(taddr, data) on any of the objects
WriteMem(r, taddr, data) ==
    /\ Calls < MaxCalls
    /\ mem' = write_mem(r, mem, taddr, data)
    /\ raw' = raw + 1
    /\ pcall' = (IF r = "P" THEN "write_mem" ELSE pcall)
    /\ UNCHANGED <<pc, taddr_current, taddr_last, wl_ptr_current, memisWiped,
                   k, lastv, newest, tornv, torn, bad, via, sess0, op, aged, probe>>

\* wipe(size); the objects keep their fields
WipeSpan(size) ==
    /\ Calls < MaxCalls
    /\ mem' = wipe(mem, size)
    /\ raw' = raw + 1
    /\ UNCHANGED <<pc, taddr_current, taddr_last, wl_ptr_current, memisWiped,
                   k, lastv, newest, tornv, torn, bad, via, sess0, op, aged,
                   probe, pcall>>

\* the ghosts lastv .. sess0 describe region A under Spec only: write_mem and
\* wipe(size) do not maintain them
NextApi ==
    \/ \E r \in Regions, w \in {1, 2} : Open(r, w)
    \/ \E data \in Payloads : ApiPush("A", data)
    \/ \E data \in PayloadsB : ApiPush("B", data)
    \/ \E data \in Payloads : PlainPush(data)
    \/ PlainRestart
    \/ \E r \in Regions, taddr \in MemIdx, data \in MemVals : WriteMem(r, taddr, data)
    \/ \E size \in WipeSizes : WipeSpan(size)

SpecApi == Init /\ [][NextApi]_vars

\* ============================================================== the claims
GetLast == wl_get_last_data("A")
SeqAt(taddr) == wl_peek("A", mem, taddr).ptr
Prev(taddr) == (taddr + num_of_data - 1) % num_of_data

\* the indices i with seq[(i+1) mod N] /= seq[i] + 1
Breaks ==
    {i \in 0..(num_of_data - 1) : SeqAt((i + 1) % num_of_data) /= U32Inc(SeqAt(i))}

\* C1: after k >= 1 completed record writes since the wipe (the last of value
\* lastv) and nothing else written to the region, an open returns normally and
\* get_last gives lastv
C1_DurabilityAcrossOpen ==
    (op = "open" /\ Clean /\ k["A"] >= 1) =>
        (pc["A"] = "ready" /\ GetLast = lastv)

\* C2: with the crc byte of the newest record (slot bad) damaged and its
\* predecessor a written record, an open returns normally with head = bad,
\* last = bad - 1 mod N, next_seq = seq[last] + 1, and get_last gives slot last
C2_TornWriteTolerance ==
    (op = "open" /\ bad >= 0 /\ ~torn /\ k["A"] >= 2) =>
        /\ pc["A"] = "ready"
        /\ taddr_current["A"] = bad
        /\ taddr_last["A"] = Prev(bad)
        /\ wl_ptr_current["A"] = U32Inc(SeqAt(Prev(bad)))
        /\ GetLast = wl_peek("A", mem, Prev(bad)).data

\* C3: after a push of tornv was interrupted inside the record write, the next
\* open does not abort, and get_last gives the value committed before or tornv;
\* on a region with nothing committed the open gives the blank outcome or
\* get_last gives tornv
C3_CrashDuringWrite ==
    (op = "open" /\ tornv /= NoVal /\ bad = -1 /\ ~aged) =>
        /\ pc["A"] = "ready"
        /\ IF lastv = NoVal
           THEN \/ GetLast = tornv
                \/ /\ taddr_current["A"] = 0
                   /\ taddr_last["A"] = 0
                   /\ wl_ptr_current["A"] = U32Of(0)
           ELSE GetLast \in {lastv, tornv}

\* C4: right after push(v), get_last gives v
C4_RoundTrip ==
    op = "push" => GetLast = lastv

C4_Witness ==
    op = "push" /\ k["A"] = num_of_data + 1 /\ via = 2 /\ GetLast = 22136

\* C5: an open of the wiped region sets (head, last, next_seq) = (0, 0, 0), and
\* the first push afterwards puts its record in slot 0 with seq 0
C5_BlankOpen ==
    /\ (op = "open" /\ Clean /\ k["A"] = 0) =>
            /\ pc["A"] = "ready"
            /\ taddr_current["A"] = 0
            /\ taddr_last["A"] = 0
            /\ wl_ptr_current["A"] = U32Of(0)
    /\ (Clean /\ k["A"] = 1) =>
            wl_peek("A", mem, 0) =
                [data |-> lastv, ptr |-> U32Of(0), crc |-> calc_crc(lastv)]

C5_Witness ==
    op = "push" /\ Clean /\ k["A"] = 1 /\ newest = 0 /\ via = 2

\* C6: get_last on the wiped and opened region gives the default, 0
C6_BlankGetLast ==
    (op = "open" /\ Clean /\ k["A"] = 0 /\ pc["A"] = "ready") => GetLast = 0

\* C7 as stated: after k >= 1 pushes of a session opened on the wiped region
\* exactly one index is a break, the slot of the newest record
C7_BreakUnique_AnyK ==
    (pc["A"] = "ready" /\ sess0 /\ k["A"] >= 1) => Breaks = {newest}

\* C7 amended: the same once k >= N - 1
C7_BreakUnique ==
    (pc["A"] = "ready" /\ sess0 /\ k["A"] >= 1 /\ k["A"] >= num_of_data - 1) =>
        Breaks = {newest}

C7_Witness ==
    pc["A"] = "ready" /\ sess0 /\ k["A"] = num_of_data + 1 /\ Breaks = {0}

\* C8: after m pushes of a session opened on the wiped region head = m mod N
\* and, once m >= 1, last = (m - 1) mod N
C8_Rotation ==
    (pc["A"] = "ready" /\ sess0) =>
        /\ taddr_current["A"] = k["A"] % num_of_data
        /\ k["A"] >= 1 => taddr_last["A"] = (k["A"] - 1) % num_of_data

C8_Witness ==
    pc["A"] = "ready" /\ sess0 /\ k["A"] = num_of_data + 1 /\ taddr_current["A"] = 1
        /\ taddr_last["A"] = 0

\* a step that is a push of region A returning to its caller
PushStep ==
    pc["A"] = "ready" /\ pc'["A"] = "ready" /\ k'["A"] = k["A"] + 1

\* C9 as stated: next_seq is strictly greater after each push
C9_Monotone_Always ==
    [][PushStep => U32Less(wl_ptr_current["A"], wl_ptr_current'["A"])]_vars

\* C9 amended: each push sets next_seq to next_seq + 1 mod 2^32, which is
\* strictly greater unless next_seq was 0xFFFFFFFF
C9_Monotone ==
    [][PushStep =>
          /\ wl_ptr_current'["A"] = U32Inc(wl_ptr_current["A"])
          /\ wl_ptr_current["A"] /= pointer_max =>
                U32Less(wl_ptr_current["A"], wl_ptr_current'["A"])]_vars

C9_Witness ==
    aged /\ op = "push" /\ wl_ptr_current["A"] = U32Of(0)
        /\ SeqAt(taddr_last["A"]) = pointer_max

\* C10: an open of a region written by k >= 1 pushes and nothing else gives
\* head = k mod N, last = (k - 1) mod N, next_seq = k
C10_ReopenTransparency ==
    (op = "open" /\ Clean /\ k["A"] >= 1) =>
        /\ pc["A"] = "ready"
        /\ taddr_current["A"] = k["A"] % num_of_data
        /\ taddr_last["A"] = (k["A"] - 1) % num_of_data
        /\ wl_ptr_current["A"] = U32Of(k["A"])


\* C11: a constructor call with num_of_data < 2, or with a wear-levelled region
\* that ends past eeprom_size, ends in a fatal error (makes no usable object).
C11_ConfigurationFatal ==
    (\/ probe.num_of_data < 2
     \/ /\ probe.wl_enable
        /\ probe.base_addr + probe.num_of_data * wl_data_size > probe.eeprom_size)
    => probe.fatal

\* C12: on an object with wl_en = false, wl_push, wl_init and wl_init2 each end
\* in the fatal state and leave the device, taddr_current, taddr_last and
\* wl_ptr_current as they were.
C12_ModeError ==
    [][\A r \in Regions \ WlRegions :
          ((\E w \in {1, 2} : Open(r, w)) \/ (\E data \in Payloads : PlainPush(data)))
          => /\ pc'[r] = "fatal"
             /\ mem' = mem
             /\ taddr_current'[r] = taddr_current[r]
             /\ taddr_last'[r] = taddr_last[r]
             /\ wl_ptr_current'[r] = wl_ptr_current[r]]_vars

\* the plain array holds data and a wl_push on it has just aborted
C12_Witness ==
    /\ pc["P"] = "fatal" /\ pcall = "wl_push"
    /\ read_mem("P", mem, 1) = 22136

\* the bytes of region r
Inside(r, a) == a >= base_addr[r] /\ a < get_end_addr(r)

\* C13: get_end_addr() is base_addr + num_of_data * wl_data_size (data_size
\* when wl_en = false), B starts where A ends and P where B ends, and every
\* wl_push or write_mem on one object changes no byte outside that object's
\* bytes [base_addr, get_end_addr()).
C13_EndAddressChaining ==
    [][/\ \A r \in Regions :
             get_end_addr(r) = base_addr[r] + num_of_data *
                 (IF wl_enable[r] THEN wl_data_size ELSE data_size)
       /\ base_addr["B"] = get_end_addr("A")
       /\ base_addr["P"] = get_end_addr("B")
       /\ \A r \in Regions :
             (\/ \E data \in Payloads \cup PayloadsB : Push(r, data)
              \/ \E taddr \in MemIdx, data \in MemVals : WriteMem(r, taddr, data))
             => \A a \in DOMAIN mem : ~Inside(r, a) => mem'[a] = mem[a]]_vars

\* A and B each hold a pushed record and a value stored by write_mem
C13_Witness ==
    /\ k["A"] = 1 /\ k["B"] = 1 /\ raw = 1
    /\ wl_peek("A", mem, 0).data \in Payloads
    /\ wl_peek("B", mem, 0).data \in PayloadsB
    /\ \E r \in WlRegions : read_mem(r, mem, NumOfData + 1) \in MemVals

\* C14: on the plain array, after write_mem(i, v) read_mem(j) returns v when
\* j % num_of_data = i % num_of_data and what it returned before otherwise.
C14_PassthroughRoundTrip ==
    [][\A taddr \in MemIdx, data \in MemVals :
          WriteMem("P", taddr, data)
          => \A j \in 0..(2 * num_of_data + 1) :
                read_mem("P", mem', j) =
                    IF j % num_of_data = taddr % num_of_data THEN data
                    ELSE read_mem("P", mem, j)]_vars

\* two values stored through indices past num_of_data - 1
C14_Witness ==
    /\ pcall = "write_mem"
    /\ read_mem("P", mem, 1) = 22136
    /\ read_mem("P", mem, 2) = 43981
    /\ read_mem("P", mem, 0) = 65535

\* the open of A has just returned the fields of a blank region
DeclaredBlank ==
    /\ op = "open" /\ pc["A"] = "ready"
    /\ taddr_current["A"] = 0 /\ taddr_last["A"] = 0

\* C15: an open returns taddr_current = 0, taddr_last = 0 (the blank outcome)
\* only when the ptr of slot 0 and the ptr of slot 1 are both 0xFFFFFFFF.
C15_BlankShortcut ==
    DeclaredBlank => SeqAt(0) = pointer_max /\ SeqAt(1) = pointer_max

\* slots 0 .. num_of_data - 1 of A hold valid records with consecutive ptr values
Consecutive ==
    /\ \A taddr \in 0..end_taddr : isdatavalid(wl_peek("A", mem, taddr))
    /\ \A taddr \in 0..(end_taddr - 1) : SeqAt(taddr + 1) = U32Inc(SeqAt(taddr))
    /\ SeqAt(end_taddr) /= pointer_max

\* C16: when the slots of A hold consecutive ptr values (the break is between
\* slot num_of_data - 1 and slot 0), an open returns taddr_last =
\* num_of_data - 1, taddr_current = 0 and wl_ptr_current = ptr[num_of_data - 1]
\* + 1, whatever the bytes after the region are.
C16_CircularNeighbour ==
    (op = "open" /\ Consecutive)
    => /\ pc["A"] = "ready"
       /\ taddr_last["A"] = end_taddr
       /\ taddr_current["A"] = 0
       /\ wl_ptr_current["A"] = U32Inc(SeqAt(end_taddr))

\* C17: whenever an open has returned, and after every later push, taddr_current
\* and taddr_last are both in 0 .. num_of_data - 1, and taddr_current is
\* (taddr_last + 1) % num_of_data unless both are 0 (the blank outcome).
C17_PointerRange ==
    \A r \in WlRegions :
        pc[r] = "ready"
        => /\ taddr_current[r] \in 0..end_taddr
           /\ taddr_last[r] \in 0..end_taddr
           /\ \/ taddr_current[r] = 0 /\ taddr_last[r] = 0
              \/ taddr_current[r] = (taddr_last[r] + 1) % num_of_data

\* the scan of an open of r compares every slot 0 .. num_of_data - 1 with the
\* record it reads as the next one and sees a break at none of them
ScanSeesNoBreak(r, m) ==
    \A taddr \in base_taddr(r)..end_taddr :
        LET current == wl_peek(r, m, taddr)
            next    == wl_peek(r, m, taddr + 1)
        IN  U32Sub(next.ptr, current.ptr) = U32Of(1) /\ next.ptr /= pointer_max

\* C18: an open (wl_init or wl_init2) whose scan sees no break at any of the
\* num_of_data positions ends in the fatal state.
C18_NoBreakFatal ==
    [][\A w \in {1, 2} :
          (Open("A", w) /\ ScanSeesNoBreak("A", mem)) => pc'["A"] = "fatal"]_vars

\* the bytes of slot taddr of region r
InSlot(r, taddr, a) ==
    a >= taddr_to_addr(r, taddr) /\ a < taddr_to_addr(r, taddr) + wl_data_size

\* C19: a push on a region stores its record in the slot that was
\* taddr_current before the call, changes no other byte of the device and
\* moves taddr_current one slot on, circularly; so in a session opened on the
\* wiped region the record of the j-th push is intact while fewer than
\* num_of_data pushes have followed it and is overwritten by the num_of_data-th.
C19_PushWritesOneSlot ==
    [][\A r \in WlRegions, data \in Payloads \cup PayloadsB :
          Push(r, data)
          => /\ \A a \in DOMAIN mem :
                   ~InSlot(r, taddr_current[r], a) => mem'[a] = mem[a]
             /\ wl_peek(r, mem', taddr_current[r]) =
                    [data |-> data, ptr |-> wl_ptr_current[r], crc |-> calc_crc(data)]
             /\ taddr_current'[r] = (taddr_current[r] + 1) % num_of_data
             /\ (r = "A" /\ sess0)
                => \A j \in 0..k["A"] :
                      j > k["A"] - num_of_data
                      => wl_peek("A", mem', j % num_of_data).ptr = U32Of(j)]_vars

\* A's session has wrapped: the record of its first push has been overwritten,
\* by the push that followed num_of_data - 1 others
C19_Witness ==
    /\ sess0 /\ op = "push" /\ k["A"] = num_of_data + 1
    /\ SeqAt(0) = U32Of(num_of_data)
    /\ SeqAt(1) = U32Of(1)

\* C20: wipe(size) sets every byte at an offset below size to 0xFF and changes
\* no byte at an offset of size or more.
C20_WipeExtent ==
    [][\A size \in WipeSizes :
          WipeSpan(size)
          => \A a \in DOMAIN mem :
                IF a < size THEN mem'[a] = 255 ELSE mem'[a] = mem[a]]_vars
====
